---- MODULE Spec2Model ----
(***************************************************************************)
(* State-machine model of src/src/selkies/legacy/rtc.py: the single-slot   *)
(* PipelineBridge and the RTCApp session controller (start_rtc_pipeline,  *)
(* stop_pipeline, set_sdp, the connection-state handler, the guarded     *)
(* data-channel sends, force_codec and the sample ingest receive_data).   *)
(* Coroutines run on one cooperative event loop, so                       *)
(* the code between two awaits is one atomic action.  Python's None is    *)
(* modelled by 0; peer connections (and the channel and bridges created   *)
(* with them) are named by the number of the start that created them.     *)
(***************************************************************************)
EXTENDS Naturals, Integers, Sequences, FiniteSets, TLC

\* ---------------------------------------------------------------- bounds
MaxSets == 8          \* set_data calls explored on one bridge
MaxGets == 6          \* get_data calls explored on one bridge
MaxConsumers == 2     \* consumer tasks pulling from one bridge
MaxStarts == 2        \* start_rtc_pipeline calls explored (start t creates connection t)
MaxSessions == 1      \* start_rtc_pipeline calls explored by SessionSpec
MaxStops == 2         \* stop_pipeline calls explored
MaxPending == 1       \* connection-state handler tasks queued per connection
MaxSent == 2          \* messages handed to the control channel
MaxCaps == 3          \* codecs in a capability list given to force_codec

None == 0

VARIABLES
  \* PipelineBridge (one instance)
  queue,        \* asyncio.Queue(maxsize=1) contents, oldest first
  getters,      \* consumers suspended in Queue.get(), in arrival order
  consumer,     \* per consumer: "idle" | "waiting" | "woken"
  nSet,         \* set_data calls made (the k-th call passes item k)
  nGet,         \* get_data calls made
  got,          \* <<item, last item set>> at the most recent get_data return
  queueError,   \* a put_nowait raised QueueFull / get_nowait raised QueueEmpty
  \* RTCApp fields
  peer_connection,
  data_channel,
  aux_data_channel,
  video_pipeline_bridge,
  audio_pipeline_bridge,
  turn_servers,
  on_sdp,       \* "default" (the logging lambda) | "async" (an installed coroutine)
  \* peer connections (transport objects), one per start
  pcs,          \* per connection: state, closing, descriptions, tracks, codec preferences
  pendingHandlers, \* on_connectionstatechange tasks scheduled and not yet run
  \* coroutines in flight
  startTask,
  stopTask,
  lastSetSdp,   \* arguments and outcome of the most recent set_sdp call
  \* control channel
  last_cursor_sent,
  sent,         \* messages handed to a data channel's send(), in order
  lastSend,     \* the most recent send_* call: method, argument, outcome
  \* media
  codecCall,    \* a force_codec call: its inputs, the transceiver's preferences, its outcome
  bridgeQ,      \* per session, the pending items of its video and its audio bridge
  lastReceive   \* the most recent receive_data call: sample, kind, packet, outcome

bridgeVars == <<queue, getters, consumer, nSet, nGet, got, queueError>>
appVars == <<peer_connection, data_channel, aux_data_channel,
             video_pipeline_bridge, audio_pipeline_bridge, turn_servers, on_sdp>>
pcVars == <<pcs, pendingHandlers>>
sendVars == <<last_cursor_sent, sent, lastSend>>
taskVars == <<startTask, stopTask, lastSetSdp, sendVars>>
mediaVars == <<codecCall, bridgeQ, lastReceive>>
vars == <<queue, getters, consumer, nSet, nGet, got, queueError,
          peer_connection, data_channel, aux_data_channel,
          video_pipeline_bridge, audio_pipeline_bridge, turn_servers, on_sdp,
          pcs, pendingHandlers, startTask, stopTask, lastSetSdp,
          last_cursor_sent, sent, lastSend, codecCall, bridgeQ, lastReceive>>

Consumers == 1..MaxConsumers
PCs == 1..MaxStarts
Sessions == 1..MaxSessions
Stops == 1..MaxStops

\* ------------------------------------------------------- PipelineBridge

\* asyncio.Queue.full() with maxsize = 1
QueueMaxSize == 1
Full(q) == Len(q) >= QueueMaxSize

\* Queue._wakeup_next(self._getters): the first waiting getter's future is resolved
WakeupNext ==
  IF getters = <<>>
  THEN UNCHANGED <<getters, consumer>>
  ELSE /\ getters' = Tail(getters)
       /\ consumer' = [consumer EXCEPT ![Head(getters)] = "woken"]

\* set_data without the eviction: put_nowait on a full queue raises QueueFull
SetDataNoEvict ==
  /\ nSet < MaxSets
  /\ nSet' = nSet + 1
  /\ IF Full(queue)
     THEN /\ queueError' = TRUE
          /\ UNCHANGED <<queue, getters, consumer>>
     ELSE /\ queue' = Append(queue, nSet + 1)
          /\ WakeupNext
          /\ UNCHANGED queueError
  /\ UNCHANGED <<nGet, got>>

\* set_data that keeps the old item when the slot is occupied (oldest-wins)
SetDataKeepOld ==
  /\ nSet < MaxSets
  /\ nSet' = nSet + 1
  /\ IF Full(queue)
     THEN UNCHANGED <<queue, getters, consumer>>
     ELSE /\ queue' = Append(queue, nSet + 1)
          /\ WakeupNext
  /\ UNCHANGED <<nGet, got, queueError>>

\* set_data waiting for room (`await self._queue.put(data)`) instead of evicting
SetDataBlocking ==
  /\ nSet < MaxSets
  /\ ~Full(queue)
  /\ nSet' = nSet + 1
  /\ queue' = Append(queue, nSet + 1)
  /\ WakeupNext
  /\ UNCHANGED <<nGet, got, queueError>>

\* PipelineBridge.set_data(data): the lock is free whenever it is requested (it is
\* never held across an await), so acquire, evict, insert and release are one step.
SetData ==
  /\ nSet < MaxSets
  /\ nSet' = nSet + 1
  /\ LET afterEvict == IF Full(queue) THEN Tail(queue) ELSE queue
     IN  IF Full(afterEvict)
         THEN /\ queueError' = TRUE
              /\ UNCHANGED <<queue, getters, consumer>>
         ELSE /\ queue' = Append(afterEvict, nSet + 1)
              /\ WakeupNext
              /\ UNCHANGED queueError
  /\ UNCHANGED <<nGet, got>>

\* PipelineBridge.get_data() called by an idle consumer: Queue.get() returns at once
\* when an item is there, and otherwise appends a getter future and suspends.
GetDataCall(c) ==
  /\ consumer[c] = "idle"
  /\ nGet < MaxGets
  /\ nGet' = nGet + 1
  /\ IF queue = <<>>
     THEN /\ getters' = Append(getters, c)
          /\ consumer' = [consumer EXCEPT ![c] = "waiting"]
          /\ UNCHANGED <<queue, got>>
     ELSE /\ got' = <<Head(queue), nSet>>
          /\ queue' = Tail(queue)
          /\ UNCHANGED <<getters, consumer>>
  /\ UNCHANGED <<nSet, queueError>>

\* Queue.get() resumed after its future was resolved: the while-loop re-tests empty()
GetDataResume(c) ==
  /\ consumer[c] = "woken"
  /\ IF queue = <<>>
     THEN /\ getters' = Append(getters, c)
          /\ consumer' = [consumer EXCEPT ![c] = "waiting"]
          /\ UNCHANGED <<queue, got>>
     ELSE /\ got' = <<Head(queue), nSet>>
          /\ queue' = Tail(queue)
          /\ consumer' = [consumer EXCEPT ![c] = "idle"]
          /\ UNCHANGED getters
  /\ UNCHANGED <<nSet, nGet, queueError>>

InitBridgeVars ==
  /\ queue = <<>>
  /\ getters = <<>>
  /\ consumer = [c \in Consumers |-> "idle"]
  /\ nSet = 0
  /\ nGet = 0
  /\ got = <<>>
  /\ queueError = FALSE

\* ------------------------------------------------- transport collaborator

NoPc == [state |-> "none", closing |-> FALSE, local |-> FALSE, remote |-> FALSE,
         channel |-> FALSE, senders |-> {}, prefs |-> <<>>]

\* RTCPeerConnection(config); createDataChannel("input"); addTrack(video); addTrack(audio)
NewPc(prefs) == [state |-> "new", closing |-> FALSE, local |-> FALSE, remote |-> FALSE,
                 channel |-> TRUE, senders |-> {"video", "audio"}, prefs |-> prefs]

\* The connection states the transport moves between on its own
TransportMoves ==
  { <<"new", "connecting">>, <<"connecting", "connected">>, <<"connecting", "failed">>,
    <<"connected", "disconnected">>, <<"disconnected", "connected">>,
    <<"disconnected", "failed">> }

\* peer_connection.close() called on connection p: a closed or closing connection is
\* left as it is, any other starts its teardown
CloseCalled(ps, p) ==
  IF ps[p].state = "closed" \/ ps[p].closing
  THEN ps
  ELSE [ps EXCEPT ![p].closing = TRUE]

\* The offer of connection p was handed to on_sdp: the peer can have it
OfferEmitted(p) == \E t \in DOMAIN startTask : startTask[t].sdpOf = p

\* The transport changes the state of connection p and emits "connectionstatechange",
\* which schedules the coroutine handler as a task.  Connecting begins only once the
\* local description is set and the offer has left; the answer's arrival is not
\* tracked here.
TransportChange(p) ==
  /\ pcs[p].state # "none"
  /\ ~pcs[p].closing
  /\ pendingHandlers[p] < MaxPending
  /\ \E m \in TransportMoves :
       /\ m[1] = pcs[p].state
       /\ m[1] = "new" => (pcs[p].local /\ OfferEmitted(p))
       /\ pcs' = [pcs EXCEPT ![p].state = m[2]]
  /\ pendingHandlers' = [pendingHandlers EXCEPT ![p] = @ + 1]
  /\ UNCHANGED <<bridgeVars, mediaVars, appVars, taskVars>>

\* The teardown started by close() finishes: the state becomes "closed" (and the
\* state change is announced like any other)
CloseComplete(p) ==
  /\ pcs[p].closing
  /\ pcs[p].state # "closed"
  /\ pendingHandlers[p] < MaxPending
  /\ pcs' = [pcs EXCEPT ![p].state = "closed"]
  /\ pendingHandlers' = [pendingHandlers EXCEPT ![p] = @ + 1]
  /\ UNCHANGED <<bridgeVars, mediaVars, appVars, taskVars>>

\* ------------------------------------------------------------ RTCApp

\* A TURN server string is modelled by its '@'-separated parts
TurnChoices ==
  { [none |-> TRUE,  servers |-> <<>>],
    [none |-> FALSE, servers |-> <<>>],
    [none |-> FALSE, servers |-> << <<"turn:host:3478">> >>],
    [none |-> FALSE, servers |-> << <<"turn:user:pass", "host:3478">> >>] }

\* get_rtc_config accepting any TURN configuration
ConfigAlwaysOk(ts) == TRUE

\* get_rtc_config(): turn_servers[0].split('@')[1] must exist
ConfigOk(ts) ==
  /\ ~ts.none
  /\ Len(ts.servers) >= 1
  /\ Len(ts.servers[1]) >= 2

\* str.lower() on the MIME types that occur
Lower(s) ==
  CASE s = "video/RTX" -> "video/rtx"
    [] s = "video/H264" -> "video/h264"
    [] s = "video/VP8" -> "video/vp8"
    [] s = "audio/RTX" -> "audio/rtx"
    [] OTHER -> s

\* Capability lists RTCRtpSender.getCapabilities("video") may return
CapChoices ==
  { << [mimeType |-> "video/VP8", pt |-> 96], [mimeType |-> "video/RTX", pt |-> 97],
       [mimeType |-> "video/H264", pt |-> 98], [mimeType |-> "video/rtx", pt |-> 99],
       [mimeType |-> "video/H264", pt |-> 100] >>,
    << [mimeType |-> "video/h264", pt |-> 98], [mimeType |-> "video/rtx", pt |-> 97] >>,
    << [mimeType |-> "video/H264", pt |-> 98], [mimeType |-> "video/VP8", pt |-> 96] >> }

\* The first index among hits, as the for/break loops find it (0: no match)
FirstIndex(hits) ==
  IF hits = {} THEN 0 ELSE CHOOSE i \in hits : \A j \in hits : i <= j

\* force_codec with the two preferences in the other order
ForceCodecRtxFirst(caps, kind, mime) ==
  LET chosen == FirstIndex({i \in 1..Len(caps) : caps[i].mimeType = mime})
      rtx == FirstIndex({i \in 1..Len(caps) : Lower(caps[i].mimeType) = kind \o "/rtx"})
  IN  IF chosen = 0 \/ rtx = 0 THEN <<>> ELSE <<caps[rtx], caps[chosen]>>

\* force_codec(pc, sender, forced_codec_mime): the preference list it sets, or <<>>
\* when it raises ValueError
ForceCodec(caps, kind, mime) ==
  LET chosen == FirstIndex({i \in 1..Len(caps) : caps[i].mimeType = mime})
      rtx == FirstIndex({i \in 1..Len(caps) : Lower(caps[i].mimeType) = kind \o "/rtx"})
  IN  IF chosen = 0 \/ rtx = 0 THEN <<>> ELSE <<caps[chosen], caps[rtx]>>

\* The inputs of a force_codec call on its own: every capability list of up to
\* MaxCaps codecs (the payload type tells the entries apart), the sender's kind, the
\* requested MIME type and the preferences the transceiver has before the call
CodecMimes == {"video/H264", "video/h264", "video/VP8", "video/rtx", "video/RTX", "audio/RTX"}
CapLists ==
  UNION { { [i \in 1..n |-> [mimeType |-> f[i], pt |-> 95 + i]] : f \in [1..n -> CodecMimes] }
          : n \in 0..MaxCaps }
NoCodecCall == [stage |-> "none", caps |-> <<>>, kind |-> "", mime |-> "",
                before |-> <<>>, prefs |-> <<>>]
CodecCalls ==
  { [stage |-> "pending", caps |-> c, kind |-> k, mime |-> m, before |-> b, prefs |-> b] :
      c \in CapLists, k \in {"video", "audio"}, m \in {"video/H264", "video/VP8"},
      b \in {<<>>, <<[mimeType |-> "video/VP8", pt |-> 96]>>} }

\* force_codec(pc, sender, forced_codec_mime) called on its own: setCodecPreferences is
\* reached only when neither lookup raised
ForceCodecCall ==
  /\ codecCall.stage = "pending"
  /\ LET prefs == ForceCodec(codecCall.caps, codecCall.kind, codecCall.mime)
     IN  codecCall' = IF prefs = <<>>
                      THEN [codecCall EXCEPT !.stage = "raised"]
                      ELSE [codecCall EXCEPT !.stage = "done", !.prefs = prefs]
  /\ UNCHANGED <<bridgeVars, appVars, pcVars, taskVars, bridgeQ, lastReceive>>

NoStart == [stage |-> "none", emitted |-> 0, sdpOf |-> None, error |-> "none"]
NoStop == [stage |-> "none", pc |-> None, error |-> "none"]

\* The start (stop) about to be made is the first unused task slot
IsNextStart(t) == startTask[t].stage = "none" /\ \A u \in 1..(t - 1) : startTask[u].stage # "none"
IsNextStop(s) == stopTask[s].stage = "none" /\ \A u \in 1..(s - 1) : stopTask[u].stage # "none"

\* The application replaces the default on_sdp lambda by its coroutine
AssignOnSdp ==
  /\ on_sdp = "default"
  /\ on_sdp' = "async"
  /\ UNCHANGED <<bridgeVars, mediaVars, pcVars, taskVars, peer_connection, data_channel,
                 aux_data_channel, video_pipeline_bridge, audio_pipeline_bridge, turn_servers>>

\* start_rtc_pipeline up to its first await (createOffer)
StartCall(t) ==
  /\ IsNextStart(t)
  /\ IF ~ConfigOk(turn_servers)
     THEN /\ startTask' = [startTask EXCEPT ![t].stage = "raised", ![t].error = "config"]
          /\ UNCHANGED <<appVars, pcVars>>
     ELSE \E caps \in CapChoices :
            LET prefs == ForceCodec(caps, "video", "video/H264")
            IN  /\ peer_connection' = t
                /\ data_channel' = t
                /\ video_pipeline_bridge' = t
                /\ audio_pipeline_bridge' = t
                /\ pcs' = [pcs EXCEPT ![t] = NewPc(prefs)]
                /\ startTask' = IF prefs = <<>>
                                THEN [startTask EXCEPT ![t].stage = "raised", ![t].error = "codec"]
                                ELSE [startTask EXCEPT ![t].stage = "createOffer"]
                /\ UNCHANGED <<aux_data_channel, turn_servers, on_sdp, pendingHandlers>>
  /\ UNCHANGED <<bridgeVars, mediaVars, stopTask, lastSetSdp, sendVars>>

\* start_rtc_pipeline emitting the offer before the local description is set
StartEmitsEarly(t) ==
  /\ startTask[t].stage = "createOffer"
  /\ startTask' = [startTask EXCEPT ![t].stage = "setLocalDescription",
                                    ![t].emitted = @ + 1, ![t].sdpOf = t]
  /\ UNCHANGED <<bridgeVars, mediaVars, appVars, pcVars, stopTask, lastSetSdp, sendVars>>

\* createOffer() returned: setLocalDescription(offer) is called on the connection the
\* start created (the bound method was taken before the await)
StartAfterCreateOffer(t) ==
  /\ startTask[t].stage = "createOffer"
  /\ IF pcs[t].closing \/ pcs[t].state = "closed"
     THEN /\ startTask' = [startTask EXCEPT ![t].stage = "raised", ![t].error = "closed"]
          /\ UNCHANGED pcs
     ELSE /\ pcs' = [pcs EXCEPT ![t].local = TRUE]
          /\ startTask' = [startTask EXCEPT ![t].stage = "setLocalDescription"]
  /\ UNCHANGED <<bridgeVars, mediaVars, appVars, pendingHandlers, stopTask, lastSetSdp, sendVars>>

\* setLocalDescription returned: the offer is read from self.peer_connection as it is
\* now, and on_sdp('offer', sdp) is called and awaited
StartAfterSetLocalDescription(t) ==
  /\ startTask[t].stage = "setLocalDescription"
  /\ startTask' =
       IF peer_connection = None \/ ~pcs[peer_connection].local
       THEN [startTask EXCEPT ![t].stage = "raised", ![t].error = "attribute"]
       ELSE IF on_sdp = "default"
       THEN [startTask EXCEPT ![t].stage = "raised", ![t].error = "await",
                              ![t].emitted = @ + 1, ![t].sdpOf = peer_connection]
       ELSE [startTask EXCEPT ![t].stage = "on_sdp",
                              ![t].emitted = @ + 1, ![t].sdpOf = peer_connection]
  /\ UNCHANGED <<bridgeVars, mediaVars, appVars, pcVars, stopTask, lastSetSdp, sendVars>>

\* the on_sdp coroutine returned: start_rtc_pipeline completes
StartAfterOnSdp(t) ==
  /\ startTask[t].stage = "on_sdp"
  /\ startTask' = [startTask EXCEPT ![t].stage = "done"]
  /\ UNCHANGED <<bridgeVars, mediaVars, appVars, pcVars, stopTask, lastSetSdp, sendVars>>

\* stop_pipeline forgetting to clear the auxiliary channel
ClearReferencesKeepAux ==
  /\ peer_connection' = None
  /\ data_channel' = None
  /\ UNCHANGED aux_data_channel
  /\ video_pipeline_bridge' = None
  /\ audio_pipeline_bridge' = None

\* stop_pipeline forgetting to clear the control channel
ClearReferencesKeepChannel ==
  /\ peer_connection' = None
  /\ UNCHANGED data_channel
  /\ aux_data_channel' = None
  /\ video_pipeline_bridge' = None
  /\ audio_pipeline_bridge' = None

\* the five assignments that end stop_pipeline
ClearReferences ==
  /\ peer_connection' = None
  /\ data_channel' = None
  /\ aux_data_channel' = None
  /\ video_pipeline_bridge' = None
  /\ audio_pipeline_bridge' = None

\* stop_pipeline up to its await of close(); on a closed connection close() returns
\* without suspending and the call runs to its end
StopCall(s) ==
  /\ IsNextStop(s)
  /\ IF peer_connection = None
     THEN /\ stopTask' = [stopTask EXCEPT ![s].stage = "raised", ![s].error = "attribute"]
          /\ UNCHANGED <<pcs, peer_connection, data_channel, aux_data_channel,
                         video_pipeline_bridge, audio_pipeline_bridge>>
     ELSE IF pcs[peer_connection].state = "closed"
     THEN /\ stopTask' = [stopTask EXCEPT ![s].stage = "done", ![s].pc = peer_connection]
          /\ ClearReferences
          /\ UNCHANGED pcs
     ELSE /\ stopTask' = [stopTask EXCEPT ![s].stage = "close", ![s].pc = peer_connection]
          /\ pcs' = CloseCalled(pcs, peer_connection)
          /\ UNCHANGED <<peer_connection, data_channel, aux_data_channel,
                         video_pipeline_bridge, audio_pipeline_bridge>>
  /\ UNCHANGED <<bridgeVars, mediaVars, turn_servers, on_sdp, pendingHandlers, startTask, lastSetSdp, sendVars>>

\* close() returned to stop_pipeline: the references are cleared
StopResume(s) ==
  /\ stopTask[s].stage = "close"
  /\ pcs[stopTask[s].pc].state = "closed"
  /\ stopTask' = [stopTask EXCEPT ![s].stage = "done"]
  /\ ClearReferences
  /\ UNCHANGED <<bridgeVars, mediaVars, turn_servers, on_sdp, pcVars, startTask, lastSetSdp, sendVars>>

\* on_datachannel(channel): the peer opened an auxiliary channel on connection p
OnDatachannel(p) ==
  /\ pcs[p].state = "connected"
  /\ ~pcs[p].closing
  /\ aux_data_channel # p
  /\ aux_data_channel' = p
  /\ UNCHANGED <<bridgeVars, mediaVars, pcVars, taskVars, peer_connection, data_channel,
                 video_pipeline_bridge, audio_pipeline_bridge, turn_servers, on_sdp>>

\* on_connectionstatechange() scheduled by connection p runs: it looks at
\* self.peer_connection as it is now and closes it when its state is "failed"
OnConnectionStateChange(p) ==
  /\ pendingHandlers[p] > 0
  /\ pendingHandlers' = [pendingHandlers EXCEPT ![p] = @ - 1]
  /\ pcs' = IF peer_connection # None /\ pcs[peer_connection].state = "failed"
            THEN CloseCalled(pcs, peer_connection)
            ELSE pcs
  /\ UNCHANGED <<bridgeVars, mediaVars, appVars, taskVars>>

NoneSdp == [isNone |-> TRUE, text |-> ""]
SdpInputs == {NoneSdp, [isNone |-> FALSE, text |-> ""], [isNone |-> FALSE, text |-> "v=0"]}
SdpTypes == {"answer", "offer"}

\* peer_connection.setRemoteDescription(answer) on connection p: the outcomes the
\* transport may produce ("installed" or "InvalidStateError")
SetRemoteOutcomes(p, sdp) ==
  IF pcs[p].closing \/ pcs[p].state = "closed" \/ ~pcs[p].local \/ pcs[p].remote
  THEN {"InvalidStateError"}
  ELSE IF sdp.text = "" THEN {"installed", "ValueError"} ELSE {"installed"}

\* set_sdp(sdp_type, sdp)
SetSdp(sdp_type, sdp) ==
  /\ IF sdp_type # "answer" \/ sdp.isNone
     THEN /\ lastSetSdp' = [type |-> sdp_type, sdp |-> sdp, outcome |-> "RTCAppError"]
          /\ UNCHANGED pcs
     ELSE IF peer_connection = None
     THEN /\ lastSetSdp' = [type |-> sdp_type, sdp |-> sdp, outcome |-> "AttributeError"]
          /\ UNCHANGED pcs
     ELSE \E o \in SetRemoteOutcomes(peer_connection, sdp) :
            /\ lastSetSdp' = [type |-> sdp_type, sdp |-> sdp, outcome |-> o]
            /\ pcs' = IF o = "installed"
                      THEN [pcs EXCEPT ![peer_connection].remote = TRUE]
                      ELSE pcs
  /\ UNCHANGED <<bridgeVars, mediaVars, appVars, pendingHandlers, startTask, stopTask, sendVars>>

\* is_data_channel_ready(): `self.data_channel and self.peer_connection.connectionState
\* == "connected"`; reading connectionState of None raises AttributeError
IsDataChannelReady ==
  IF data_channel = None THEN "false"
  ELSE IF peer_connection = None THEN "AttributeError"
  ELSE IF pcs[peer_connection].state = "connected" THEN "true" ELSE "false"

CLIPBOARD_RESTRICTION == 65400

\* len(base64.b64encode(data)) for data of n bytes
Base64Len(n) == 4 * ((n + 2) \div 3)

\* The send_* methods, each with the arguments explored (for clipboard: the byte
\* length of the text)
SendCalls ==
  {[method |-> "clipboard", arg |-> n] : n \in {3, 49050, 49051}} \cup
  {[method |-> m, arg |-> 1] :
     m \in {"cursor", "gpu_stats", "reload", "framerate", "video_bitrate",
            "audio_bitrate", "encoder", "resize", "resolution", "ping",
            "latency", "system_stats"}}

\* The msg_type each method passes to __send_data_channel_message
MsgType(method) ==
  CASE method = "clipboard" -> "clipboard"
    [] method = "cursor" -> "cursor"
    [] method = "gpu_stats" -> "gpu_stats"
    [] method = "ping" -> "ping"
    [] method = "latency" -> "latency_measurement"
    [] method = "system_stats" -> "system_stats"
    [] OTHER -> "system"

\* The data each method passes: the key (for "system", the action prefix) and the value
MsgData(call) ==
  CASE call.method = "clipboard" -> [key |-> "content", val |-> Base64Len(call.arg)]
    [] call.method = "cursor" -> [key |-> "cursor", val |-> call.arg]
    [] call.method = "gpu_stats" -> [key |-> "load", val |-> call.arg]
    [] call.method = "reload" -> [key |-> "reload", val |-> 0]
    [] call.method = "framerate" -> [key |-> "videoFramerate,", val |-> call.arg]
    [] call.method = "video_bitrate" -> [key |-> "video_bitrate,", val |-> call.arg]
    [] call.method = "audio_bitrate" -> [key |-> "audio_bitrate,", val |-> call.arg]
    [] call.method = "encoder" -> [key |-> "encoder,", val |-> call.arg]
    [] call.method = "resize" -> [key |-> "resize,", val |-> call.arg]
    [] call.method = "resolution" -> [key |-> "resolution,", val |-> call.arg]
    [] call.method = "ping" -> [key |-> "start_time", val |-> call.arg]
    [] call.method = "latency" -> [key |-> "latency_ms", val |-> call.arg]
    [] OTHER -> [key |-> "cpu_percent", val |-> call.arg]

Message(call) == [type |-> MsgType(call.method), data |-> MsgData(call)]

\* __send_data_channel_message without the readiness guard
SendUnguarded(call) ==
  IF data_channel = None
  THEN /\ lastSend' = [call |-> call, outcome |-> "AttributeError"]
       /\ UNCHANGED sent
  ELSE /\ sent' = Append(sent, [channel |-> data_channel, msg |-> Message(call)])
       /\ lastSend' = [call |-> call, outcome |-> "sent"]

\* __send_data_channel_message putting the new message ahead of the earlier ones
SendPrepend(call) ==
  IF IsDataChannelReady = "AttributeError"
  THEN /\ lastSend' = [call |-> call, outcome |-> "AttributeError"]
       /\ UNCHANGED sent
  ELSE IF IsDataChannelReady = "false"
  THEN /\ lastSend' = [call |-> call, outcome |-> "skipped"]
       /\ UNCHANGED sent
  ELSE /\ sent' = <<[channel |-> data_channel, msg |-> Message(call)]>> \o sent
       /\ lastSend' = [call |-> call, outcome |-> "sent"]

\* __send_data_channel_message(msg_type, data)
SendDataChannelMessage(call) ==
  IF IsDataChannelReady = "AttributeError"
  THEN /\ lastSend' = [call |-> call, outcome |-> "AttributeError"]
       /\ UNCHANGED sent
  ELSE IF IsDataChannelReady = "false"
  THEN /\ lastSend' = [call |-> call, outcome |-> "skipped"]
       /\ UNCHANGED sent
  ELSE /\ sent' = Append(sent, [channel |-> data_channel, msg |-> Message(call)])
       /\ lastSend' = [call |-> call, outcome |-> "sent"]

\* send_clipboard_data comparing with < instead of <=
SendClipboardStrict(call) ==
  /\ Len(sent) < MaxSent
  /\ IF call.method = "clipboard" /\ Base64Len(call.arg) >= CLIPBOARD_RESTRICTION
     THEN /\ lastSend' = [call |-> call, outcome |-> "dropped"]
          /\ UNCHANGED sent
     ELSE SendDataChannelMessage(call)
  /\ last_cursor_sent' = IF call.method = "cursor" THEN call.arg ELSE last_cursor_sent
  /\ UNCHANGED <<bridgeVars, mediaVars, appVars, pcVars, startTask, stopTask, lastSetSdp>>

\* send_clipboard_data, send_cursor_data and the other send_* methods
Send(call) ==
  /\ Len(sent) < MaxSent
  /\ IF call.method = "clipboard" /\ Base64Len(call.arg) > CLIPBOARD_RESTRICTION
     THEN /\ lastSend' = [call |-> call, outcome |-> "dropped"]
          /\ UNCHANGED sent
     ELSE SendDataChannelMessage(call)
  /\ last_cursor_sent' = IF call.method = "cursor" THEN call.arg ELSE last_cursor_sent
  /\ UNCHANGED <<bridgeVars, mediaVars, appVars, pcVars, startTask, stopTask, lastSetSdp>>

InitApp ==
  /\ peer_connection = None
  /\ data_channel = None
  /\ aux_data_channel = None
  /\ video_pipeline_bridge = None
  /\ audio_pipeline_bridge = None
  /\ turn_servers \in TurnChoices
  /\ on_sdp = "default"
  /\ pcs = [p \in PCs |-> NoPc]
  /\ pendingHandlers = [p \in PCs |-> 0]
  /\ startTask = [t \in PCs |-> NoStart]
  /\ stopTask = [s \in Stops |-> NoStop]
  /\ lastSetSdp = [type |-> "", sdp |-> NoneSdp, outcome |-> "none"]
  /\ last_cursor_sent = None
  /\ sent = <<>>
  /\ lastSend = [call |-> [method |-> "", arg |-> 0], outcome |-> "none"]

\* ------------------------------------------------------- sample ingest

\* Packet timestamps: av.Packet leaves pts and dts None until they are assigned
Unset == [isNone |-> TRUE, val |-> 0]
Ticks(n) == [isNone |-> FALSE, val |-> n]

RTP_VIDEO_CLOCK_RATE == 90000
DefaultAudioRate == 48000

\* buf.pts as the capture pipeline delivers it: Python None, Gst.CLOCK_TIME_NONE, or
\* a time.  The times explored are whole milliseconds, ms * 10^6 ns.
PtsMs == {1, 500, 1000}
BufPts ==
  {[tag |-> "None", ms |-> 0], [tag |-> "CLOCK_TIME_NONE", ms |-> 0]} \cup
  {[tag |-> "value", ms |-> m] : m \in PtsMs}

\* `buf.pts is not None and buf.pts != Gst.CLOCK_TIME_NONE`
Defined(bp) == bp.tag # "None" /\ bp.tag # "CLOCK_TIME_NONE"

\* conversion rounding up instead of down
PtsOfCeil(ms, clock_rate) == (ms * clock_rate + 999) \div 1000

\* (buf.pts * clock_rate) // 1000000000 for buf.pts = ms * 10^6, which is
\* (ms * clock_rate) // 1000
PtsOf(ms, clock_rate) == (ms * clock_rate) \div 1000

\* The "rate" values of the audio caps (0: get_int finds no rate)
Rates == {0, 44100}

\* The samples the capture pipeline may hand over
GoodSamples ==
  { [present |-> TRUE, buf |-> TRUE, caps |-> TRUE, mapOk |-> TRUE, convertOk |-> TRUE,
     pts |-> bp, rate |-> r] : bp \in BufPts, r \in Rates }
BadSample(what) ==
  [present |-> what # "sample", buf |-> what # "buf", caps |-> what # "caps",
   mapOk |-> what # "map", convertOk |-> what # "convert",
   pts |-> [tag |-> "value", ms |-> 1000], rate |-> 44100]
Samples == GoodSamples \cup {BadSample(w) : w \in {"sample", "buf", "caps", "map", "convert"}}
Kinds == {"video", "audio"}

\* receive_data taking the video branch for every kind
BranchAlwaysVideo(kind) == "video"

\* `if kind == "video": ... else: ...`
Branch(kind) == IF kind = "video" THEN "video" ELSE "audio"

\* the video branch: 90 kHz clock, pts converted and copied to dts
VideoPacket(sample) ==
  LET t == IF Defined(sample.pts)
           THEN Ticks(PtsOf(sample.pts.ms, RTP_VIDEO_CLOCK_RATE))
           ELSE Unset
  IN  [time_base |-> RTP_VIDEO_CLOCK_RATE, pts |-> t, dts |-> t]

\* the audio branch: clock rate from the caps or 48000, pts converted, dts not assigned
AudioPacket(sample) ==
  LET clock_rate == IF sample.rate = 0 THEN DefaultAudioRate ELSE sample.rate
  IN  [time_base |-> clock_rate,
       pts |-> IF Defined(sample.pts) THEN Ticks(PtsOf(sample.pts.ms, clock_rate)) ELSE Unset,
       dts |-> Unset]

\* PipelineBridge.set_data on the pending items q of a bridge
SetDataOn(q, data) == Append(IF Full(q) THEN Tail(q) ELSE q, data)

NoPacket == [time_base |-> 0, pts |-> Unset, dts |-> Unset]
NoItems == [video |-> <<>>, audio |-> <<>>]
NoReceive == [tick |-> 0, sample |-> BadSample("sample"), kind |-> "", outcome |-> "none",
              inserted |-> FALSE, packet |-> NoPacket]

\* receive_data(sample, kind).  The bridge test and set_data run without suspending
\* (the bridge's lock is free), so the call is one step.  outcome is what the call
\* returns: "None", "FlowReturn.OK" or "FlowReturn.ERROR".
ReceiveData(sample, kind) ==
  LET done(outcome, inserted, packet) ==
        lastReceive' = [tick |-> 1 - lastReceive.tick, sample |-> sample, kind |-> kind,
                        outcome |-> outcome, inserted |-> inserted, packet |-> packet]
      packet == IF Branch(kind) = "video" THEN VideoPacket(sample) ELSE AudioPacket(sample)
      bridge == IF Branch(kind) = "video" THEN video_pipeline_bridge
                ELSE audio_pipeline_bridge
  IN  /\ IF ~sample.present
         THEN done("None", FALSE, NoPacket) /\ UNCHANGED bridgeQ
         ELSE IF ~sample.buf \/ ~sample.caps
         THEN done("FlowReturn.OK", FALSE, NoPacket) /\ UNCHANGED bridgeQ
         ELSE IF ~sample.mapOk
         THEN done("FlowReturn.ERROR", FALSE, NoPacket) /\ UNCHANGED bridgeQ
         ELSE IF ~sample.convertOk
         THEN done("None", FALSE, NoPacket) /\ UNCHANGED bridgeQ
         ELSE IF bridge = None
         THEN done("None", FALSE, packet) /\ UNCHANGED bridgeQ
         ELSE /\ done("None", TRUE, packet)
              /\ bridgeQ' = [bridgeQ EXCEPT ![bridge][Branch(kind)] = SetDataOn(@, packet)]
      /\ UNCHANGED <<bridgeVars, appVars, pcVars, taskVars, codecCall>>

\* VideoMedia.recv / AudioMedia.recv of session p returning: get_data hands over the
\* pending item of that session's bridge
Recv(p, kind) ==
  /\ pcs[p].state \notin {"none", "closed"}
  /\ bridgeQ[p][kind] # <<>>
  /\ bridgeQ' = [bridgeQ EXCEPT ![p][kind] = Tail(@)]
  /\ UNCHANGED <<bridgeVars, appVars, pcVars, taskVars, codecCall, lastReceive>>

InitIngest ==
  /\ bridgeQ = [p \in PCs |-> NoItems]
  /\ lastReceive = NoReceive

\* --------------------------------------------------------- specifications

Init == InitBridgeVars /\ InitApp /\ codecCall = NoCodecCall /\ InitIngest

Next ==
  \/ AssignOnSdp
  \/ \E t \in PCs : StartCall(t)
  \/ \E t \in PCs : StartAfterCreateOffer(t)
  \/ \E t \in PCs : StartAfterSetLocalDescription(t)
  \/ \E t \in PCs : StartAfterOnSdp(t)
  \/ \E s \in Stops : StopCall(s)
  \/ \E s \in Stops : StopResume(s)
  \/ \E p \in PCs : TransportChange(p)
  \/ \E p \in PCs : CloseComplete(p)
  \/ \E p \in PCs : OnDatachannel(p)
  \/ \E p \in PCs : OnConnectionStateChange(p)

Spec == Init /\ [][Next]_vars

\* The same controller with the number of starts bounded by MaxSessions
NextSession ==
  \/ AssignOnSdp
  \/ \E t \in Sessions : StartCall(t)
  \/ \E t \in Sessions : StartAfterCreateOffer(t)
  \/ \E t \in Sessions : StartAfterSetLocalDescription(t)
  \/ \E t \in Sessions : StartAfterOnSdp(t)
  \/ \E s \in Stops : StopCall(s)
  \/ \E s \in Stops : StopResume(s)
  \/ \E p \in Sessions : TransportChange(p)
  \/ \E p \in Sessions : CloseComplete(p)
  \/ \E p \in Sessions : OnDatachannel(p)
  \/ \E p \in Sessions : OnConnectionStateChange(p)

SessionSpec == Init /\ [][NextSession]_vars

InitBridge == Init /\ turn_servers = [none |-> TRUE, servers |-> <<>>]

NextBridge ==
  \/ SetData /\ UNCHANGED <<appVars, pcVars, taskVars, mediaVars>>
  \/ \E c \in Consumers : GetDataCall(c) /\ UNCHANGED <<appVars, pcVars, taskVars, mediaVars>>
  \/ \E c \in Consumers : GetDataResume(c) /\ UNCHANGED <<appVars, pcVars, taskVars, mediaVars>>

BridgeSpec == InitBridge /\ [][NextBridge]_vars

\* A bridge with the one consumer the program gives it (the recv loop of the track
\* built on it); the event loop resumes a woken consumer
RelayResume(c) == GetDataResume(c) /\ UNCHANGED <<appVars, pcVars, taskVars, mediaVars>>

NextRelay ==
  \/ SetData /\ UNCHANGED <<appVars, pcVars, taskVars, mediaVars>>
  \/ \E c \in {1} : GetDataCall(c) /\ UNCHANGED <<appVars, pcVars, taskVars, mediaVars>>
  \/ \E c \in {1} : RelayResume(c)

RelaySpec == InitBridge /\ [][NextRelay]_vars /\ WF_vars(RelayResume(1))

\* Signalling: one session and the answers the peer may send
InitSdp == Init /\ ConfigOk(turn_servers)

NextSdp ==
  \/ AssignOnSdp
  \/ \E t \in {1} : StartCall(t)
  \/ \E t \in {1} : StartAfterCreateOffer(t)
  \/ \E t \in {1} : StartAfterSetLocalDescription(t)
  \/ \E t \in {1} : StartAfterOnSdp(t)
  \/ \E s \in {1} : StopCall(s)
  \/ \E s \in {1} : StopResume(s)
  \/ \E ty \in SdpTypes, sdp \in SdpInputs : SetSdp(ty, sdp)
  \/ \E p \in {1} : TransportChange(p)
  \/ \E p \in {1} : CloseComplete(p)
  \/ \E p \in {1} : OnConnectionStateChange(p)

SdpSpec == InitSdp /\ [][NextSdp]_vars

\* Control channel: one session and the send_* calls
NextSend ==
  \/ AssignOnSdp
  \/ \E t \in {1} : StartCall(t)
  \/ \E t \in {1} : StartAfterCreateOffer(t)
  \/ \E t \in {1} : StartAfterSetLocalDescription(t)
  \/ \E t \in {1} : StartAfterOnSdp(t)
  \/ \E s \in {1} : StopCall(s)
  \/ \E s \in {1} : StopResume(s)
  \/ \E p \in {1} : TransportChange(p)
  \/ \E p \in {1} : CloseComplete(p)
  \/ \E p \in {1} : OnConnectionStateChange(p)
  \/ \E call \in SendCalls : Send(call)

SendSpec == InitSdp /\ [][NextSend]_vars

\* Media ingest: one session, the samples of the capture pipeline and the senders
\* pulling from the bridges
NextIngest ==
  \/ AssignOnSdp
  \/ \E t \in {1} : StartCall(t)
  \/ \E t \in {1} : StartAfterCreateOffer(t)
  \/ \E t \in {1} : StartAfterSetLocalDescription(t)
  \/ \E t \in {1} : StartAfterOnSdp(t)
  \/ \E s \in {1} : StopCall(s)
  \/ \E s \in {1} : StopResume(s)
  \/ \E p \in {1} : CloseComplete(p)
  \/ \E sample \in Samples, kind \in Kinds : ReceiveData(sample, kind)
  \/ \E p \in {1}, kind \in Kinds : Recv(p, kind)

IngestSpec == InitSdp /\ [][NextIngest]_vars

\* Codec pinning on its own: one force_codec call per behaviour
InitCodec ==
  /\ InitBridgeVars /\ InitApp /\ InitIngest
  /\ turn_servers = [none |-> TRUE, servers |-> <<>>]
  /\ codecCall \in CodecCalls

NextCodec == ForceCodecCall

CodecSpec == InitCodec /\ [][NextCodec]_vars

\* The event loop runs every task that is ready, and the transport finishes a
\* teardown it has begun
Fairness ==
  /\ \A p \in PCs : WF_vars(OnConnectionStateChange(p))
  /\ \A p \in PCs : WF_vars(CloseComplete(p))
  /\ \A s \in Stops : WF_vars(StopResume(s))
  /\ \A t \in PCs : WF_vars(StartAfterCreateOffer(t))
  /\ \A t \in PCs : WF_vars(StartAfterSetLocalDescription(t))
  /\ \A t \in PCs : WF_vars(StartAfterOnSdp(t))

FairSpec == Init /\ [][Next]_vars /\ Fairness

\* ------------------------------------------------------------- properties

Refs == <<peer_connection, data_channel, aux_data_channel,
          video_pipeline_bridge, audio_pipeline_bridge>>
AllAbsent == <<None, None, None, None, None>>

\* C1: every item get_data returns is the item of the last set_data call made before
\* the return, and the pending item is always the last one set, so an item that was
\* overwritten is never returned by a later get_data
C1_NewestWins ==
  /\ got # <<>> => got[1] = got[2]
  /\ \A i \in 1..Len(queue) : queue[i] = nSet

\* three set_data calls and then the first get_data return, which yields item 3
C1_Witness == nSet = 3 /\ nGet = 1 /\ got = <<3, 3>> /\ queue = <<>>

\* C2: the bridge holds at most one item and no put_nowait ever raises QueueFull
C2_Capacity == Len(queue) <= QueueMaxSize /\ ~queueError

\* a consumer was suspended, the first set_data woke it, and a second set_data
\* arrived on the full bridge before it ran: item 1 was evicted, item 2 is pending
C2_Witness ==
  /\ nSet = 2 /\ nGet = 1 /\ got = <<>>
  /\ queue = <<2>>
  /\ \E c \in Consumers : consumer[c] = "woken"

\* C3: no stop_pipeline call raises, whatever state it is called in
C3_StopNeverRaises == \A s \in Stops : stopTask[s].stage # "raised"

\* C4: the step that completes a stop_pipeline leaves the connection it closed in
\* state "closed" and all five references absent
C4_StopClears ==
  [][\A s \in Stops :
       (stopTask[s].stage # "done" /\ stopTask'[s].stage = "done")
         => /\ Refs' = AllAbsent
            /\ pcs'[stopTask'[s].pc].state = "closed"]_vars

\* a stop_pipeline has completed on a started session
C4_Witness ==
  \E s \in Stops :
    /\ stopTask[s].stage = "done"
    /\ pcs[stopTask[s].pc].state = "closed"
    /\ Refs = AllAbsent

\* C5: is_data_channel_ready never raises, and it is true exactly when the control
\* channel exists and the connection that channel belongs to is "connected"
C5_Readiness ==
  /\ IsDataChannelReady # "AttributeError"
  /\ IsDataChannelReady = "true"
       <=> (data_channel # None /\ pcs[data_channel].state = "connected")
  /\ (\A p \in PCs : pcs[p].state = "none") => IsDataChannelReady = "false"
  /\ Refs = AllAbsent => IsDataChannelReady = "false"

\* the channel is ready
C5_Witness == IsDataChannelReady = "true"

TooLong(call) == call.method = "clipboard" /\ Base64Len(call.arg) > CLIPBOARD_RESTRICTION
SendStep == lastSend' # lastSend \/ sent' # sent

\* C6 as stated: a send_* call made while not ready hands nothing to the channel and
\* raises nothing; a call made while ready hands exactly one message
C6_GuardedSendOriginal ==
  [][SendStep =>
       IF IsDataChannelReady = "true"
       THEN sent' = Append(sent, [channel |-> data_channel, msg |-> Message(lastSend'.call)])
       ELSE sent' = sent /\ lastSend'.outcome # "AttributeError"]_vars

\* C6 amended: as above, except that send_clipboard_data with a base64 length above
\* 65400 hands nothing to the channel even while ready
C6_GuardedSend ==
  [][SendStep =>
       IF IsDataChannelReady = "true" /\ ~TooLong(lastSend'.call)
       THEN sent' = Append(sent, [channel |-> data_channel, msg |-> Message(lastSend'.call)])
       ELSE sent' = sent /\ lastSend'.outcome # "AttributeError"]_vars

\* a message was handed to the channel, and a later call after stop handed none
C6_Witness ==
  /\ Len(sent) = 1
  /\ lastSend.outcome = "skipped"
  /\ \E s \in Stops : stopTask[s].stage = "done"

\* C7: set_sdp with a type other than 'answer', or an absent or empty sdp, raises
\* RTCAppError and leaves the remote description as it was
C7_SetSdpAcceptance ==
  [][lastSetSdp' # lastSetSdp =>
       LET c == lastSetSdp'
       IN  (c.type # "answer" \/ c.sdp.isNone \/ c.sdp.text = "")
             => (c.outcome = "RTCAppError" /\ pcs' = pcs)]_vars

\* C8: a connection that has failed is eventually closed
C8_FailedLeadsToClosed ==
  \A p \in PCs : (pcs[p].state = "failed") ~> (pcs[p].state = "closed")

\* C9: at most one connection created by the controller is un-closed, and the
\* controller's reference points to it
C9_OneActiveSession ==
  LET open == {p \in PCs : pcs[p].state \notin {"none", "closed"}}
  IN  /\ Cardinality(open) <= 1
      /\ \A p \in open : peer_connection = p

Prepared(t) ==
  /\ pcs[t].channel
  /\ pcs[t].senders = {"video", "audio"}
  /\ pcs[t].prefs # <<>>
  /\ pcs[t].local

\* C10 as stated: a completed start emitted the offer exactly once, after the channel,
\* the tracks, the codec preference and the local description; a failed start emitted none
C10_OfferEmissionOriginal ==
  \A t \in PCs :
    /\ startTask[t].stage = "done" => startTask[t].emitted = 1
    /\ startTask[t].emitted >= 1 => Prepared(t)
    /\ startTask[t].stage = "raised" => startTask[t].emitted = 0

\* C10 amended: a start that fails before its on_sdp call emitted none; one that fails
\* in awaiting on_sdp (the default, non-awaitable handler) has emitted once
C10_OfferEmission ==
  \A t \in PCs :
    /\ startTask[t].stage = "done" => startTask[t].emitted = 1
    /\ startTask[t].emitted >= 1 => Prepared(t) /\ pcs[startTask[t].sdpOf].local
    /\ startTask[t].emitted <= 1
    /\ (startTask[t].stage = "raised" /\ startTask[t].error # "await")
         => startTask[t].emitted = 0

\* a start completed, having emitted the offer of the connection it created
C10_Witness ==
  \E t \in PCs :
    /\ startTask[t].stage = "done"
    /\ startTask[t].emitted = 1
    /\ startTask[t].sdpOf = t

\* C11: the sequence handed to the control channel only ever grows at its end, by the
\* message of the call being made, and only when that call finds the channel ready;
\* no other step (a later call, the channel becoming ready, a stop) adds, removes or
\* reorders a message, so a skipped or dropped message is never sent later
C11_CallOrder ==
  [][\/ sent' = sent
     \/ /\ IsDataChannelReady = "true"
        /\ lastSend'.outcome = "sent"
        /\ sent' = Append(sent, [channel |-> data_channel, msg |-> Message(lastSend'.call)])]_vars

\* a cursor message and then a clipboard message were handed over, in that order
C11_Witness ==
  /\ Len(sent) = 2
  /\ sent[1].msg.type = "cursor"
  /\ sent[2].msg.type = "clipboard"

\* C12: with the channel ready, send_clipboard_data hands over one 'clipboard' message
\* carrying the whole base64 text when its length is at most 65400, and nothing when
\* it is longer
C12_ClipboardThreshold ==
  [][(SendStep /\ lastSend'.call.method = "clipboard" /\ IsDataChannelReady = "true") =>
       LET n == Base64Len(lastSend'.call.arg)
       IN  IF n <= 65400
           THEN sent' = Append(sent, [channel |-> data_channel,
                                      msg |-> [type |-> "clipboard",
                                               data |-> [key |-> "content", val |-> n]]])
           ELSE sent' = sent]_vars

\* a clipboard text of exactly 65400 base64 characters was handed over, and a later
\* one of 65404 characters was dropped
C12_Witness ==
  /\ Len(sent) = 1
  /\ sent[1].msg = [type |-> "clipboard", data |-> [key |-> "content", val |-> 65400]]
  /\ lastSend = [call |-> [method |-> "clipboard", arg |-> 49051], outcome |-> "dropped"]
  /\ IsDataChannelReady = "true"

\* the position of the first entry of caps that satisfies a test, given as the set of
\* positions that satisfy it
IsFirst(i, hits) == i \in hits /\ \A j \in hits : i <= j

C14_NoTurnServer ==
  (turn_servers.none \/ turn_servers.servers = <<>>) =>
    /\ Refs = AllAbsent
    /\ \A p \in PCs : pcs[p] = NoPc
    /\ \A t \in PCs :
         /\ startTask[t].stage \in {"none", "raised"}
         /\ startTask[t].stage = "raised" => startTask[t].error = "config"
         /\ startTask[t].emitted = 0

\* start_rtc_pipeline was called with an empty TURN server list and raised
C14_Witness ==
  /\ ~turn_servers.none
  /\ turn_servers.servers = <<>>
  /\ \E t \in PCs : startTask[t].stage = "raised"

ReceiveStep == lastReceive'.tick # lastReceive.tick
BridgeOf(kind) == IF kind = "video" THEN video_pipeline_bridge ELSE audio_pipeline_bridge
OtherKind(kind) == IF kind = "video" THEN "audio" ELSE "video"

\* C15: a receive_data call changes no controller state; when the bridge for its kind
\* is absent (before start, after stop, or while a stop is in progress elsewhere)
\* nothing is inserted anywhere and the call returns normally; when it is present a
\* well-formed sample's packet becomes the pending item of that bridge and no other
\* bridge changes
C15_IngestRouting ==
  [][ReceiveStep =>
       LET r == lastReceive'
           b == BridgeOf(r.kind)
       IN  /\ appVars' = appVars /\ pcVars' = pcVars /\ taskVars' = taskVars
           /\ b = None => bridgeQ' = bridgeQ /\ ~r.inserted
           /\ r.sample \in GoodSamples =>
                IF b = None
                THEN r.outcome = "None"
                ELSE /\ r.outcome = "None" /\ r.inserted
                     /\ bridgeQ'[b][r.kind] = <<r.packet>>
                     /\ bridgeQ'[b][OtherKind(r.kind)] = bridgeQ[b][OtherKind(r.kind)]
                     /\ \A p \in PCs \ {b} : bridgeQ'[p] = bridgeQ[p]]_vars

\* an audio sample arriving after stop_pipeline was dropped, while the video packet
\* inserted during the session is still in its (abandoned) bridge
C15_Witness ==
  /\ \E s \in Stops : stopTask[s].stage = "done"
  /\ lastReceive.sample \in GoodSamples
  /\ lastReceive.kind = "audio"
  /\ ~lastReceive.inserted
  /\ bridgeQ[1].video # <<>>
  /\ bridgeQ[1].audio = <<>>

\* C16: every receive_data call returns normally with a non-error result
C16_IngestNeverFails == lastReceive.outcome \in {"none", "None", "FlowReturn.OK"}

\* C17: every packet pending in a bridge has dts equal to pts
C17_DtsEqualsPts ==
  \A p \in PCs : \A k \in Kinds : \A i \in 1..Len(bridgeQ[p][k]) :
    bridgeQ[p][k][i].dts = bridgeQ[p][k][i].pts

\* C18: for a well-formed sample with a defined timestamp of ms milliseconds the
\* packet's pts is the whole number of clock ticks in that time, at 90000 Hz for
\* video and at the declared rate (48000 when none is declared) for audio; with an
\* unset timestamp the packet has no pts; either way it is inserted when the bridge
\* is present
C18_TimestampConversion ==
  [][(ReceiveStep /\ lastReceive'.sample \in GoodSamples) =>
       LET r == lastReceive'
           rate == IF r.kind = "video" THEN 90000
                   ELSE IF r.sample.rate = 0 THEN 48000 ELSE r.sample.rate
           ms == r.sample.pts.ms
       IN  /\ r.packet.time_base = rate
           /\ IF r.sample.pts.tag = "value"
              THEN /\ ~r.packet.pts.isNone
                   /\ r.packet.pts.val * 1000 <= ms * rate
                   /\ ms * rate < (r.packet.pts.val + 1) * 1000
              ELSE r.packet.pts = Unset
           /\ (r.kind = "video" /\ r.sample.pts.tag = "value" /\ ms = 1000)
                => r.packet.pts.val = 90000
           /\ (r.kind = "audio" /\ r.sample.pts.tag = "value" /\ ms = 500
                 /\ r.sample.rate = 44100) => r.packet.pts.val = 22050
           /\ BridgeOf(r.kind) # None =>
                r.inserted /\ bridgeQ'[BridgeOf(r.kind)][r.kind] = <<r.packet>>]_vars

\* a 44100 Hz audio sample stamped 500 ms was inserted with pts 22050
C18_Witness ==
  /\ lastReceive.inserted
  /\ lastReceive.kind = "audio"
  /\ lastReceive.sample.rate = 44100
  /\ lastReceive.sample.pts = [tag |-> "value", ms |-> 500]
  /\ lastReceive.packet.pts = Ticks(22050)
  /\ bridgeQ[1].audio = <<lastReceive.packet>>

\* C19: a set_data call can always be made and completes in its own step, without
\* raising, whether the slot is empty or full and whatever the consumer does; a set_data
\* made while the consumer is suspended in get_data wakes it with an item pending, and
\* a woken consumer eventually returns from get_data
C19_ProducerNeverBlocked ==
  /\ [](nSet < MaxSets => ENABLED SetData)
  /\ [][nSet' # nSet => (nSet' = nSet + 1 /\ ~queueError' /\ queue' = <<nSet'>>)]_vars
  /\ [][(consumer[1] = "waiting" /\ nSet' # nSet) => consumer'[1] = "woken"]_vars
  /\ [](consumer[1] = "woken" => queue # <<>>)
  /\ (consumer[1] = "woken") ~> (consumer[1] = "idle" /\ got # <<>>)

\* the consumer is suspended in get_data, was woken by a first set_data, and a second
\* set_data has completed on the full slot before the consumer ran
C19_Witness ==
  /\ consumer[1] = "woken"
  /\ nSet >= 2
  /\ queue = <<nSet>>
  /\ got = <<>>
  /\ consumer[2] = "idle"

\* C20: in every state between steps the references peer_connection, data_channel,
\* video_pipeline_bridge and audio_pipeline_bridge are all present or all absent,
\* and aux_data_channel is present only when peer_connection is
C20_AllOrNothing ==
  LET four == {peer_connection, data_channel, video_pipeline_bridge, audio_pipeline_bridge}
  IN  /\ four = {None} \/ None \notin four
      /\ data_channel # None => peer_connection # None
      /\ aux_data_channel # None => peer_connection # None

====
